---- MODULE Spec2Model ----
(***************************************************************************)
(* Model of visualize_dependency.py: the depth- and visited-bounded        *)
(* recursive expansion of a package's dependencies (build_dependency_graph *)
(* and its helper get_dependencies), the rendering of the edge list as a   *)
(* PlantUML script, and main's save / visualize steps.                     *)
(*                                                                         *)
(* Python strings are sequences of one-character strings, so that          *)
(* formatting (f-strings, concatenation) and parsing (splitlines, split,   *)
(* strip, startswith) are computed and not assumed.                        *)
(***************************************************************************)
EXTENDS Integers, Sequences, FiniteSets, TLC

\* ------------------------------------------------------------------ bounds
\* Longest "Requires" list one installed package declares.
MaxDeps == 2
\* Total number of "Requires" entries over the packages that are queried.
MaxDecls == 4
\* Largest max_depth the configuration file is given.
MaxDepth == 3
\* Largest max_depth of the two-package environment (specification SpecPair).
MaxDepthPair == 5

\* ------------------------------------------------------------ package names
A == <<"A">>
B == <<"B">>
C == <<"C">>
D == <<"D">>
\* The package names the environment knows.
Packages == {A, B, C, D}
\* The package names of the two-package environment.
PairPackages == {A, B}

\* ------------------------------------------------------------ Python strings
StartsWith(s, p) == Len(s) >= Len(p) /\ SubSeq(s, 1, Len(p)) = p

\* str.find: index of the first occurrence of sep in s, 0 when there is none.
Find(s, sep) ==
    LET hits == {i \in 1..(Len(s) - Len(sep) + 1) : SubSeq(s, i, i + Len(sep) - 1) = sep}
    IN  IF hits = {} THEN 0 ELSE CHOOSE i \in hits : \A j \in hits : i <= j

\* str.split(sep)
RECURSIVE Split(_, _)
Split(s, sep) ==
    LET i == Find(s, sep)
    IN  IF i = 0 THEN <<s>>
        ELSE <<SubSeq(s, 1, i - 1)>> \o Split(SubSeq(s, i + Len(sep), Len(s)), sep)

IsSpace(c) == c \in {" ", "\n", "\t"}

\* str.strip()
RECURSIVE Strip(_)
Strip(s) ==
    IF s = <<>> THEN s
    ELSE IF IsSpace(s[1]) THEN Strip(Tail(s))
    ELSE IF IsSpace(s[Len(s)]) THEN Strip(SubSeq(s, 1, Len(s) - 1))
    ELSE s

\* str.splitlines(): the lines of a text, without a last empty line
splitlines(s) ==
    IF s = <<>> THEN <<>>
    ELSE LET parts == Split(s, <<"\n">>)
         IN  IF parts[Len(parts)] = <<>> THEN SubSeq(parts, 1, Len(parts) - 1) ELSE parts

\* sep.join(ss)
RECURSIVE Join(_, _)
Join(ss, sep) ==
    IF ss = <<>> THEN <<>>
    ELSE IF Len(ss) = 1 THEN ss[1]
    ELSE ss[1] \o sep \o Join(Tail(ss), sep)

\* [f(x) for x in ss]
MapStrip(ss) == [i \in 1..Len(ss) |-> Strip(ss[i])]

NonEmpty(s) == s # <<>>

\* --------------------------------------------------------------- constants
STARTUML == <<"@", "s", "t", "a", "r", "t", "u", "m", "l">>
ENDUML == <<"@", "e", "n", "d", "u", "m", "l">>
ARROW == <<" ", "-", "-", ">", " ">>
REQUIRES == <<"R", "e", "q", "u", "i", "r", "e", "s">>
COMMA_SP == <<",", " ">>

VARIABLES
    pkgs,               \* environment: the package names pip may answer about
    pip_on_path,        \* environment: the pip executable can be started
    pipenv,             \* environment: package queried so far -> what pip knows of it
    visualizer_exists,  \* environment: os.path.exists(visualizer_path)
    package_name,       \* config["package_name"]
    max_depth,          \* config["max_depth"]
    pc,                 \* position in main
    stack,              \* the active calls of add_dependencies, outermost first
    graph,              \* build_dependency_graph's list of relation strings
    visited,            \* build_dependency_graph's set of expanded packages
    calls,              \* log: the calls of get_dependencies, in order
    returned,           \* log: package -> the list get_dependencies returned
    out,                \* what was printed, in order
    exc,                \* the exception that ended main, "none" when there is none
    script,             \* main's plantuml_script
    file                \* contents of dependency_graph.puml, NoFile before it is written

vars == <<pkgs, pip_on_path, pipenv, visualizer_exists, package_name, max_depth,
          pc, stack, graph, visited, calls, returned, out, exc, script, file>>

env == <<pkgs, pip_on_path, visualizer_exists, package_name, max_depth>>

NoFile == <<"<", "n", "o", " ", "f", "i", "l", "e", ">">>

\* --------------------------------------------------------- the environment
\* Sequences over S of length at most n.
SeqsUpTo(S, n) == UNION {[1..k -> S] : k \in 0..n}

\* The Requires entries of the packages ps that pip was asked about.
RECURSIVE SumRequires(_)
SumRequires(ps) ==
    IF ps = {} THEN 0
    ELSE LET p == CHOOSE q \in ps : TRUE
         IN  Len(pipenv[p].requires) + SumRequires(ps \ {p})

Decls == SumRequires(DOMAIN pipenv)

Min2(a, b) == IF a < b THEN a ELSE b

\* What pip can know of a package it is asked about for the first time: the
\* package is not installed, or it is installed and declares a Requires list.
NewEntries ==
    {[present |-> FALSE, requires |-> <<>>]} \cup
    {[present |-> TRUE, requires |-> r] : r \in SeqsUpTo(pkgs, Min2(MaxDeps, MaxDecls - Decls))}

\* pip answers the same about a package every time it is asked.
Entries(pkg) == IF pkg \in DOMAIN pipenv THEN {pipenv[pkg]} ELSE NewEntries

\* The text "pip show" prints for an installed package.
PipShowText(pkg, requires) ==
    <<"N", "a", "m", "e", ":", " ">> \o pkg \o <<"\n">>
    \o REQUIRES \o <<":", " ">> \o Join(requires, COMMA_SP) \o <<"\n">>
    \o <<"R", "e", "q", "u", "i", "r", "e", "d", "-", "b", "y", ":", " ">> \o <<"\n">>

\* subprocess.run(["pip", "show", package_name], ..., check=True)
subprocess_run(pkg, entry) ==
    IF ~pip_on_path THEN [raises |-> "FileNotFoundError", stdout |-> <<>>]
    ELSE IF ~entry.present THEN [raises |-> "CalledProcessError", stdout |-> <<>>]
    ELSE [raises |-> "none", stdout |-> PipShowText(pkg, entry.requires)]

\* ------------------------------------------------------- get_dependencies
\* The loop over result.stdout.splitlines(): the first line that starts with
\* "Requires" decides, then break.
ParseRequires(stdout) ==
    LET lines == splitlines(stdout)
        hits == {i \in 1..Len(lines) : StartsWith(lines[i], REQUIRES)}
    IN  IF hits = {} THEN <<>>
        ELSE LET line == lines[CHOOSE i \in hits : \A j \in hits : i <= j]
                 requires_line == Strip(Split(line, <<":">>)[2])
             IN  IF requires_line = <<>> THEN <<>>
                 ELSE MapStrip(SelectSeq(Split(requires_line, COMMA_SP), NonEmpty))

\* The exceptions the try block of get_dependencies catches.
Caught == {"CalledProcessError"}

\* get_dependencies(package_name), given what pip knows of the package:
\* the exception it raises ("none": it returns), its value and what it prints.
get_dependencies(pkg, entry) ==
    LET result == subprocess_run(pkg, entry)
    IN  IF result.raises \in Caught
        THEN [raises |-> "none", value |-> <<>>,
              printed |-> <<[msg |-> "Error: Could not fetch dependencies for", arg |-> pkg]>>]
        ELSE IF result.raises # "none"
        THEN [raises |-> result.raises, value |-> <<>>, printed |-> <<>>]
        ELSE [raises |-> "none", value |-> ParseRequires(result.stdout), printed |-> <<>>]

\* ------------------------------------------------- build_dependency_graph
\* Mutant of Relation: the two names swapped.
RelationReversed(pkg_name, dep) == dep \o ARROW \o pkg_name

\* f"{pkg_name} --> {dep}"
Relation(pkg_name, dep) == pkg_name \o ARROW \o dep

\* Mutant of Skip: the depth test is off by one.
SkipDepthOffByOne(pkg_name, current_depth) ==
    current_depth > max_depth + 1 \/ pkg_name \in visited

\* Mutant of Skip: the depth test is missing.
SkipVisitedOnly(pkg_name, current_depth) == pkg_name \in visited

\* Mutant of Skip: the visited test is missing.
SkipDepthOnly(pkg_name, current_depth) == current_depth > max_depth

\* The early return of add_dependencies.
Skip(pkg_name, current_depth) == current_depth > max_depth \/ pkg_name \in visited

\* Mutant of MarkVisited: the package is not added.
MarkVisitedForgotten(pkg_name) == visited

\* visited.add(pkg_name)
MarkVisited(pkg_name) == visited \cup {pkg_name}

\* Mutant of NextDep: the loop stays on the same dependency.
NextDepStuck(i) == i

\* The loop variable after one iteration of "for dep in dependencies".
NextDep(i) == i + 1

\* The call add_dependencies(pkg_name, current_depth) up to the start of its
\* loop, made with the callers' frames stk: the early return, or visited.add,
\* the call of get_dependencies and a new frame; an exception of
\* get_dependencies unwinds every frame and ends main.
add_dependencies(pkg_name, current_depth, stk) ==
    IF Skip(pkg_name, current_depth)
    THEN /\ stack' = stk
         /\ UNCHANGED <<pipenv, visited, calls, returned, out, exc, pc>>
    ELSE /\ visited' = MarkVisited(pkg_name)
         /\ calls' = Append(calls, [pkg |-> pkg_name, depth |-> current_depth])
         /\ IF ~pip_on_path
            THEN LET r == get_dependencies(pkg_name, [present |-> FALSE, requires |-> <<>>])
                 IN  /\ exc' = r.raises
                     /\ pc' = "raised"
                     /\ stack' = <<>>
                     /\ UNCHANGED <<pipenv, returned, out>>
            ELSE \E entry \in Entries(pkg_name) :
                    LET r == get_dependencies(pkg_name, entry)
                    IN  /\ pipenv' = IF pkg_name \in DOMAIN pipenv THEN pipenv
                                     ELSE (pkg_name :> entry) @@ pipenv
                        /\ returned' = (pkg_name :> r.value) @@ returned
                        /\ out' = out \o r.printed
                        /\ stack' = Append(stk, [pkg_name |-> pkg_name,
                                                 current_depth |-> current_depth,
                                                 dependencies |-> r.value,
                                                 i |-> 1])
                        /\ UNCHANGED <<exc, pc>>

\* main calls build_dependency_graph: graph = [], visited = set(),
\* add_dependencies(package_name, 1).
BuildStart ==
    /\ pc = "build"
    /\ stack = <<>>
    /\ calls = <<>>
    /\ graph' = <<>>
    /\ add_dependencies(package_name, 1, <<>>)
    /\ UNCHANGED <<env, script, file>>

\* One iteration of the loop of the innermost add_dependencies: append the
\* relation, call add_dependencies(dep, current_depth + 1).
LoopStep ==
    /\ pc = "build"
    /\ stack # <<>>
    /\ LET top == stack[Len(stack)]
       IN  /\ top.i <= Len(top.dependencies)
           /\ LET dep == top.dependencies[top.i]
              IN  /\ graph' = Append(graph, Relation(top.pkg_name, dep))
                  /\ add_dependencies(dep, top.current_depth + 1,
                                      [stack EXCEPT ![Len(stack)].i = NextDep(top.i)])
    /\ UNCHANGED <<env, script, file>>

\* The loop of the innermost add_dependencies is over: it returns; when it
\* is the outermost call, build_dependency_graph returns graph to main.
Return ==
    /\ pc = "build"
    /\ stack # <<>>
    /\ LET top == stack[Len(stack)]
       IN  top.i > Len(top.dependencies)
    /\ stack' = SubSeq(stack, 1, Len(stack) - 1)
    /\ pc' = IF Len(stack) = 1 THEN "render" ELSE pc
    /\ UNCHANGED <<env, pipenv, graph, visited, calls, returned, out, exc, script, file>>

\* ----------------------------------------------- generate_plantuml_script
RECURSIVE AppendRelations(_, _)
AppendRelations(plantuml_script, relations) ==
    IF relations = <<>> THEN plantuml_script
    ELSE AppendRelations(plantuml_script \o Head(relations) \o <<"\n">>, Tail(relations))

\* Mutant of generate_plantuml_script: no newline after a relation.
generate_plantuml_script_no_newline(g) ==
    STARTUML \o <<"\n">> \o Join(g, <<>>) \o ENDUML

generate_plantuml_script(g) ==
    AppendRelations(STARTUML \o <<"\n">>, g) \o ENDUML

Render ==
    /\ pc = "render"
    /\ script' = generate_plantuml_script(graph)
    /\ pc' = "save"
    /\ UNCHANGED <<env, pipenv, stack, graph, visited, calls, returned, out, exc, file>>

\* save_plantuml_script(plantuml_script, "dependency_graph.puml")
Save ==
    /\ pc = "save"
    /\ file' = script
    /\ pc' = "visualize"
    /\ UNCHANGED <<env, pipenv, stack, graph, visited, calls, returned, out, exc, script>>

\* What visualize_graph prints.
visualize_graph ==
    IF ~visualizer_exists
    THEN <<[msg |-> "Error: Jar file not found at", arg |-> <<>>]>>
    ELSE <<>>

Visualize ==
    /\ pc = "visualize"
    /\ out' = out \o visualize_graph
    /\ pc' = "done"
    /\ UNCHANGED <<env, pipenv, stack, graph, visited, calls, returned, exc, script, file>>

\* ------------------------------------------------------------------- specs
\* The state of main after parse_xml_config. The root package is A: the
\* environment treats all names alike, so any other root is a renaming.
InitWith(universe, depths) ==
    /\ pkgs = universe
    /\ pip_on_path \in BOOLEAN
    /\ visualizer_exists \in BOOLEAN
    /\ package_name = A
    /\ max_depth \in depths
    /\ pipenv = <<>>
    /\ pc = "build"
    /\ stack = <<>>
    /\ graph = <<>>
    /\ visited = {}
    /\ calls = <<>>
    /\ returned = <<>>
    /\ out = <<>>
    /\ exc = "none"
    /\ script = <<>>
    /\ file = NoFile

Init == InitWith(Packages, 1..MaxDepth)

InitPair == InitWith(PairPackages, 1..MaxDepthPair)

Next == BuildStart \/ LoopStep \/ Return \/ Render \/ Save \/ Visualize

Spec == Init /\ [][Next]_vars

SpecPair == InitPair /\ [][Next]_vars

\* The interpreter runs main to its end: a step that can be taken is taken.
FairSpec == Spec /\ WF_vars(Next)

FairSpecPair == SpecPair /\ WF_vars(Next)

\* ------------------------------------------------------ derived quantities
Terminated == pc \in {"done", "raised"}

\* build_dependency_graph has returned its graph to main.
BuildReturned == pc \in {"render", "save", "visualize", "done"}

Range(s) == {s[i] : i \in 1..Len(s)}

\* The text of the edge (n, d) in the graph: "n --> d".
Edge(n, d) == n \o <<" ", "-", "-", ">", " ">> \o d

Count(s, x) == Cardinality({i \in 1..Len(s) : s[i] = x})

\* The packages within k edges of the root in the relation the lookups returned.
RECURSIVE ReachWithin(_)
ReachWithin(k) ==
    IF k <= 0 THEN {package_name}
    ELSE LET prev == ReachWithin(k - 1)
         IN  prev \cup {d \in pkgs : \E p \in prev \cap DOMAIN returned : d \in Range(returned[p])}

\* The iterations the active calls still have to make.
RECURSIVE Remaining(_)
Remaining(stk) ==
    IF stk = <<>> THEN 0
    ELSE (Len(Head(stk).dependencies) + 1 - Head(stk).i) + Remaining(Tail(stk))

PcRank == CASE pc = "build" -> 4
            [] pc = "render" -> 3
            [] pc = "save" -> 2
            [] pc = "visualize" -> 1
            [] OTHER -> 0

\* A bound on the steps main still takes: every package not yet expanded may
\* still cost one call, its loop and its return.
Measure ==
    PcRank + Len(stack) + Remaining(stack) + (MaxDeps + 2) * Cardinality(pkgs \ visited)

\* ------------------------------------------------------------------ claims

\* C1: for every dependency relation (cyclic ones and self-dependencies
\* included) and every max_depth >= 1, build_dependency_graph terminates:
\* every step of the run strictly decreases a natural-number measure, and
\* the run reaches its final state (main has ended, normally or by an
\* exception).
C1_Terminates ==
    /\ [][Measure' < Measure]_vars
    /\ [](Measure >= 0)
    /\ <>Terminated

\* C1 witness: a run over a cyclic relation (a package that is its own
\* dependency, or two packages that depend on each other) has ended.
C1_Witness ==
    /\ pc = "done"
    /\ \E p \in DOMAIN returned : p \in Range(returned[p])
    /\ \E p, q \in DOMAIN returned : p # q /\ q \in Range(returned[p]) /\ p \in Range(returned[q])

\* C2: a failing lookup (non-zero exit, missing package, tool unavailable)
\* makes get_dependencies return the empty list, so the build never raises
\* and the failing package has no outgoing edge.
C2_LookupFailsSoft ==
    /\ exc = "none"
    /\ \A k \in 1..Len(calls) :
          (BuildReturned /\ (~pip_on_path \/ ~pipenv[calls[k].pkg].present))
              => /\ returned[calls[k].pkg] = <<>>
                 /\ \A d \in pkgs : Edge(calls[k].pkg, d) \notin Range(graph)

\* The example of the specification with X, Y, Z, W named A, B, C, D:
\* max_depth = 2, lookup(A) = [B, C], lookup(B) = [D], lookup(C) = [].
ExampleRun ==
    /\ BuildReturned
    /\ max_depth = 2
    /\ {A, B, C} \subseteq DOMAIN returned
    /\ returned[A] = <<B, C>>
    /\ returned[B] = <<D>>
    /\ returned[C] = <<>>

\* C3 as stated: the example's graph is the sequence (X,Y), (X,Z), (Y,W).
C3_ExampleAsListed ==
    ExampleRun => graph = <<Edge(A, B), Edge(A, C), Edge(B, D)>>

\* C3 amended: the example's graph is the sequence (X,Y), (Y,W), (X,Z), the
\* depth-first discovery order; W is never expanded and is the source of no edge.
C3_ExampleDepthFirst ==
    ExampleRun =>
        /\ graph = <<Edge(A, B), Edge(B, D), Edge(A, C)>>
        /\ D \notin visited
        /\ \A k \in 1..Len(calls) : calls[k].pkg # D
        /\ \A d \in pkgs : Edge(D, d) \notin Range(graph)

C3_Witness == ExampleRun /\ pc = "done"

\* C4: every edge of the graph is a pair (n, d) where get_dependencies was
\* called for n in this run and d is an element of the list it returned.
C4_EdgesAreLookupPairs ==
    \A i \in 1..Len(graph) :
        \E k \in 1..Len(calls) :
            /\ calls[k].pkg \in DOMAIN returned
            /\ \E d \in Range(returned[calls[k].pkg]) : graph[i] = Edge(calls[k].pkg, d)

C4_Witness ==
    /\ pc = "done"
    /\ Len(graph) >= 3
    /\ Cardinality(DOMAIN returned) >= 3

\* C5: the source of every edge was expanded at a depth <= max_depth and is
\* within max_depth - 1 edges of the root; with max_depth = 1 the source of
\* every edge is the root.
C5_DepthBound ==
    \A i \in 1..Len(graph) :
        \E k \in 1..Len(calls) :
            /\ \E d \in pkgs : graph[i] = Edge(calls[k].pkg, d)
            /\ calls[k].depth <= max_depth
            /\ calls[k].pkg \in ReachWithin(max_depth - 1)
            /\ max_depth = 1 => calls[k].pkg = package_name

\* C5 witness: a run with max_depth = 1 has ended with edges to packages other
\* than the root, none of which was expanded.
C5_Witness ==
    /\ pc = "done"
    /\ max_depth = 1
    /\ Len(graph) >= 2
    /\ \E d \in Range(returned[package_name]) : d # package_name

\* The relation of claim C6: lookup(A) = [B], lookup(B) = [A], max_depth = 5.
CycleRun ==
    /\ max_depth = 5
    /\ package_name = A
    /\ {A, B} \subseteq DOMAIN returned
    /\ returned[A] = <<B>>
    /\ returned[B] = <<A>>

CycleGraph == <<Edge(A, B), Edge(B, A)>>

\* C6: for lookup(A) = [B], lookup(B) = [A], build_dependency_graph(A, 5)
\* terminates (every step decreases the measure, nothing is raised, and while
\* the build runs there is an active call to continue), never holds more than
\* the edges (A,B), (B,A), each once, and returns exactly these two; each
\* package is expanded once.
C6_CycleTwoEdges ==
    /\ [][CycleRun => Measure' < Measure]_vars
    /\ [](CycleRun =>
            /\ graph = SubSeq(CycleGraph, 1, Len(graph))
            /\ Len(calls) = 2
            /\ Len(stack) <= 2
            /\ exc = "none"
            /\ pc = "build" => stack # <<>>
            /\ BuildReturned => graph = CycleGraph)

C6_Witness == CycleRun /\ pc = "done"

\* C7: when the visualizer artifact does not exist, the complete script is in
\* the output file before the visualizer check, and the run ends without an
\* error, with the visualizer's diagnostic as the last thing printed.
C7_MissingVisualizer ==
    ~visualizer_exists =>
        /\ pc \in {"visualize", "done"} => file = generate_plantuml_script(graph)
        /\ Terminated =>
              /\ pc = "done"
              /\ exc = "none"
              /\ file = generate_plantuml_script(graph)
              /\ out # <<>>
              /\ out[Len(out)].msg = "Error: Jar file not found at"

\* C8: the script is the start marker, then one line per edge of the graph in
\* the order of the graph, then the end marker; the example [(A,B), (A,C)]
\* gives the lines "A --> B" and "A --> C" between the markers.
C8_RenderOrder ==
    pc \in {"save", "visualize", "done"} =>
        /\ splitlines(script) = <<STARTUML>> \o graph \o <<ENDUML>>
        /\ graph = <<Edge(A, B), Edge(A, C)>> =>
              script = STARTUML \o <<"\n">>
                       \o <<"A", " ", "-", "-", ">", " ", "B", "\n">>
                       \o <<"A", " ", "-", "-", ">", " ", "C", "\n">>
                       \o ENDUML

C8_Witness ==
    /\ pc = "done"
    /\ graph = <<Edge(A, B), Edge(A, C)>>
    /\ file = script

\* C9: every package within max_depth - 1 edges of the root is expanded, and
\* each of its lookup pairs is an edge of the result.
C9_ExpansionComplete ==
    pc = "done" =>
        \A p \in ReachWithin(max_depth - 1) :
            /\ p \in DOMAIN returned
            /\ \A d \in Range(returned[p]) : Edge(p, d) \in Range(graph)

\* C10: get_dependencies is called at most once per package; the visited
\* packages are the expanded ones; when the build has returned, every
\* expanded package has one edge per entry of its lookup list, so a
\* dependency of two parents has an edge from each and its own edges once.
C10_ExpandedOnce ==
    /\ \A p \in pkgs : Cardinality({k \in 1..Len(calls) : calls[k].pkg = p}) <= 1
    /\ visited = {calls[k].pkg : k \in 1..Len(calls)}
    /\ BuildReturned =>
          /\ DOMAIN returned = visited
          /\ \A p \in pkgs, d \in pkgs :
                Count(graph, Edge(p, d)) =
                    IF p \in DOMAIN returned THEN Count(returned[p], d) ELSE 0

\* C10 witness: a dependency with dependencies of its own is in the lookup
\* lists of two different expanded parents.
C10_Witness ==
    /\ pc = "done"
    /\ \E p, q, d \in DOMAIN returned :
          /\ p # q /\ p # d /\ q # d
          /\ d \in Range(returned[p])
          /\ d \in Range(returned[q])
          /\ returned[d] # <<>>

====
